---- MODULE Spec2Model ----
(***************************************************************************)
(* Model of the spindle detection-and-measurement pipeline of              *)
(* src/src/curveFitData.py: point extraction, greedy clustering,           *)
(* consolidation, centroid, selection, axis alignment, and the entry       *)
(* points that call getSpindleImg / getSpindleImgWithTransform.            *)
(*                                                                         *)
(* Pixels are pairs <<row, column>>.  Real numbers are kept exact:         *)
(* a centroid is the triple (xsum, ysum, mass) of the code's running       *)
(* sums, distances are compared as squared rationals, and the results of   *)
(* the floating-point curve fit are symbolic values.                       *)
(*                                                                         *)
(* The main window of src/src/spindleGUI.py is the record gui; each of its *)
(* handlers is a function from the window's state to the states the        *)
(* handler can leave it in, and an action of the specification SpecGUI.    *)
(***************************************************************************)
EXTENDS Integers, Sequences, FiniteSets, TLC

\* ---------------------------------------------------------------- bounds
\* largest number of foreground pixels of a mask
MaxPixels == 4
\* largest uniform intensity level of an image
MaxBase == 1
\* largest number of frames of a .tiff file
MaxFrames == 2

\* ------------------------------------------------------ program constants
\* per-axis tolerance of the clustering pass (<= ClusterTol)
ClusterTol == 2
\* per-axis threshold of the consolidation pass (< MergeTol)
MergeTol == 10
\* side of the placeholder raster returned for an empty mask
XSide == 100
\* number of parameters of threshFunctions.applyThreshToArr
ThreshParams == 2
\* number of arguments MainWindow.applyThreshold passes to it
ThreshArgsPassed == 4
\* value of the threshold spin box after construction
DefaultThresh == 1000

\* ------------------------------------------------------------ the inputs
\* image shape: arr.shape = (Height, Width)
Width == 12
Height == 36

\* the pixels a mask of the model may contain
Candidates ==
    { <<0, 0>>, <<0, 4>>, <<2, 2>>, <<2, 11>>, <<5, 0>>, <<15, 10>>,
      <<17, 6>>, <<17, 7>>, <<17, 8>>, <<27, 6>>, <<35, 11>> }

Masks == { S \in SUBSET Candidates : Cardinality(S) <= MaxPixels }

\* an image is a level plus an optional checkerboard of one extra count
Images == [base : 0..MaxBase, ramp : {0, 1}]

Intensity(img, r, c) == img.base + img.ramp * ((r + c) % 2)

\* manual poles are (x, y) points in original image space: (left, right)
PolePairs == { << <<1, 5>>, <<4, 9>> >>, << <<1, 5>>, <<1, 9>> >>,
               << <<2, 3>>, <<9, 30>> >> }
NoPole == <<0, 0>>

Entries == { "spindleMeasurements", "spindlePlot", "spindleMeasurementsManual",
             "spindlePlotManual", "spindlePlotWithOriginalCoords" }
ManualEntries == { "spindleMeasurementsManual", "spindlePlotManual" }

Abs(n) == IF n < 0 THEN -n ELSE n

VARIABLES
    imageArr,      \* the intensity grid (parameters of Intensity)
    arr,           \* the mask: the set of foreground pixels
    entry,         \* the entry point that was called
    leftPole, rightPole,
    pc,            \* position inside the call
    r2, c2,        \* rows / columns of the foreground points, scan order
    i,             \* index of the clustering loop (0-based, as in the code)
    tObjects,      \* the live clusters
    startLength, o1, o2,   \* consolidation loop variables
    centerObj,     \* 1-based index bound by the selection loop, 0 = unbound
    ret,           \* the tuple returned by getSpindleImg[WithTransform]
    outcome,       \* what the entry point gave to its caller
    stages,        \* the stages executed so far in this call
    passLog,       \* history of the consolidation loop: number of passes
                   \* started, and for the current pass whether a merge
                   \* happened and which index pairs (o1, o2) were compared
    gui            \* the attributes and widget values of the main window

vars == << imageArr, arr, entry, leftPole, rightPole, pc, r2, c2, i, tObjects,
           startLength, o1, o2, centerObj, ret, outcome, stages, passLog, gui >>

\* ------------------------------------------------------- Point Extractor
Before(p, q) == p[1] < q[1] \/ (p[1] = q[1] /\ p[2] < q[2])

RECURSIVE ScanPoints(_)
ScanPoints(S) ==
    IF S = {} THEN << >>
    ELSE LET p == CHOOSE p \in S : \A q \in S \ {p} : Before(p, q)
         IN  <<p>> \o ScanPoints(S \ {p})

Rows(ps) == [k \in 1..Len(ps) |-> ps[k][1]]
Cols(ps) == [k \in 1..Len(ps) |-> ps[k][2]]

\* ----------------------------------------------------- thresholdObject
NoCom == [set |-> FALSE, xsum |-> 0, ysum |-> 0, mass |-> 0]

thresholdObject(x0, y0) ==
    [xCoords |-> <<x0>>, yCoords |-> <<y0>>, numPoints |-> 1, com |-> NoCom]

addPoint(obj, xCoord, yCoord) ==
    [obj EXCEPT !.xCoords = Append(@, xCoord),
                !.yCoords = Append(@, yCoord),
                !.numPoints = @ + 1]

RECURSIVE addPointsFrom(_, _, _, _)
addPointsFrom(obj, x2s, y2s, k) ==
    IF k > Len(x2s) THEN obj
    ELSE addPointsFrom(addPoint(obj, x2s[k], y2s[k]), x2s, y2s, k + 1)

\* mutant: the loop over the added points starts one element late
addPoints_SkipsFirst(obj, x2s, y2s) == addPointsFrom(obj, x2s, y2s, 2)

addPoints(obj, x2s, y2s) == addPointsFrom(obj, x2s, y2s, 1)

\* the pixels of a cluster, as a set of <<row, column>>
Members(obj) == { <<obj.yCoords[k], obj.xCoords[k]>> : k \in 1..Len(obj.xCoords) }

\* ------------------------------------------------------ clustering pass
\* some member of obj is within the per-axis tolerance of the point (x, y)
IsNeighbor(obj, x, y) ==
    \E j \in 1..Len(obj.xCoords) :
        /\ Abs(obj.xCoords[j] - x) <= ClusterTol
        /\ Abs(obj.yCoords[j] - y) <= ClusterTol

\* mutant: the point goes to the object created last among those that accept it
FirstMatch_Latest(objs, x, y) ==
    LET hits == { o \in 1..Len(objs) : IsNeighbor(objs[o], x, y) }
    IN  IF hits = {} THEN 0
        ELSE CHOOSE o \in hits : \A o3 \in hits : o >= o3

\* index (1-based) of the first object that accepts the point, 0 when none does
FirstMatch(objs, x, y) ==
    LET hits == { o \in 1..Len(objs) : IsNeighbor(objs[o], x, y) }
    IN  IF hits = {} THEN 0
        ELSE CHOOSE o \in hits : \A o3 \in hits : o <= o3

\* one iteration of "for i in range(0, len(c2))"
PlacePoint(objs, x, y) ==
    LET o == FirstMatch(objs, x, y)
    IN  IF o = 0 THEN Append(objs, thresholdObject(x, y))
        ELSE [objs EXCEPT ![o] = addPoint(@, x, y)]

\* ---------------------------------------------------- consolidation pass
RemoveAt(s, k) == [n \in 1..(Len(s) - 1) |-> IF n < k THEN s[n] ELSE s[n + 1]]

\* tObjects.sort(reverse=True): descending numPoints, equal counts keep order
RECURSIVE SortObjects(_)
SortObjects(objs) ==
    IF objs = << >> THEN << >>
    ELSE LET best == CHOOSE m \in 1..Len(objs) :
                        /\ \A n \in 1..Len(objs) : objs[n].numPoints <= objs[m].numPoints
                        /\ \A n \in 1..(m - 1) : objs[n].numPoints < objs[m].numPoints
         IN  <<objs[best]>> \o SortObjects(RemoveAt(objs, best))

\* mutant: the comparison of the consolidation pass made inclusive
AnyWithinMerge_Inclusive(a, b) ==
    \E n \in 1..Len(a.xCoords) : \E k \in 1..Len(b.xCoords) :
        /\ Abs(b.xCoords[k] - a.xCoords[n]) <= MergeTol
        /\ Abs(b.yCoords[k] - a.yCoords[n]) <= MergeTol

\* coordTrunc has a nonzero entry for some point of a
AnyWithinMerge(a, b) ==
    \E n \in 1..Len(a.xCoords) : \E k \in 1..Len(b.xCoords) :
        /\ Abs(b.xCoords[k] - a.xCoords[n]) < MergeTol
        /\ Abs(b.yCoords[k] - a.yCoords[n]) < MergeTol

\* mutant: the absorbed object is not popped
MergeObjects_NoPop(objs, a, b) ==
    [objs EXCEPT ![a] = addPoints(@, objs[b].xCoords, objs[b].yCoords)]

\* addPoints of object b (1-based) into object a, then pop(b)
MergeObjects(objs, a, b) ==
    RemoveAt([objs EXCEPT ![a] = addPoints(@, objs[b].xCoords, objs[b].yCoords)], b)

\* --------------------------------------------------- centroid (centre of mass)
RECURSIVE MassSums(_, _, _)
MassSums(img, obj, k) ==
    IF k = 0 THEN [set |-> TRUE, xsum |-> 0, ysum |-> 0, mass |-> 0]
    ELSE LET prev == MassSums(img, obj, k - 1)
             yC == obj.yCoords[k]
             xC == obj.xCoords[k]
             v == Intensity(img, yC, xC)
         IN  [set |-> TRUE, xsum |-> prev.xsum + v * xC,
              ysum |-> prev.ysum + v * yC, mass |-> prev.mass + v]

\* com = [xsum/mass, ysum/mass], kept as the three sums; mass = 0 gives NaN
CenterOfMass(img, obj) == MassSums(img, obj, obj.numPoints)

IsNaN(com) == com.mass = 0

\* ----------------------------------------------------------- selection
\* squared distance from (xcen, ycen) = (w/2, h/2) to com, as num/den
DistSq(com, w, h) ==
    [num |-> (w * com.mass - 2 * com.xsum) * (w * com.mass - 2 * com.xsum)
             + (h * com.mass - 2 * com.ysum) * (h * com.mass - 2 * com.ysum),
     den |-> 4 * com.mass * com.mass]

\* a < b for non-negative rationals; a comparison with NaN is false
RatLess(a, b) == a.den # 0 /\ b.den # 0 /\ a.num * b.den < b.num * a.den

RECURSIVE SumPoints(_, _)
SumPoints(objs, k) == IF k = 0 THEN 0 ELSE objs[k].numPoints + SumPoints(objs, k - 1)

\* numPoints > npmean(numPointsArr)
AboveAverage(objs, o) == objs[o].numPoints * Len(objs) > SumPoints(objs, Len(objs))

\* the loop "for o in range(0, len(tObjects))" from object o (1-based) on;
\* best is the 1-based index bound to centerObj so far, 0 while it is unbound
RECURSIVE SelectLoop(_, _, _, _, _, _)
SelectLoop(objs, w, h, o, minDist, best) ==
    IF o > Len(objs) THEN best
    ELSE LET d == DistSq(objs[o].com, w, h)
         IN  IF RatLess(d, minDist) /\ AboveAverage(objs, o)
             THEN SelectLoop(objs, w, h, o + 1, d, o)
             ELSE SelectLoop(objs, w, h, o + 1, minDist, best)

\* minDist = len(threshArr[0]), as a squared rational
InitialMinDist(w) == [num |-> w * w, den |-> 1]

\* 1-based index of the selected object, 0 when centerObj was never bound
SelectSpindle(objs, w, h) ==
    IF Len(objs) > 1 THEN SelectLoop(objs, w, h, 1, InitialMinDist(w), 0)
    ELSE 1

\* ------------------------------------------------------- axis alignment
\* inertia tensor over the distinct pixels of the spindle, scaled by mass^2
InertiaTensor(obj) ==
    LET m == obj.com.mass
        RECURSIVE Sum(_, _)
        Sum(S, kind) ==
            IF S = {} THEN 0
            ELSE LET p == CHOOSE p \in S : TRUE
                     dx == p[2] * m - obj.com.xsum
                     dy == p[1] * m - obj.com.ysum
                     t == CASE kind = "xx" -> dx * dx
                            [] kind = "yy" -> dy * dy
                            [] OTHER -> dx * dy
                 IN  t + Sum(S \ {p}, kind)
    IN  [Ixx |-> Sum(Members(obj), "xx"), Iyy |-> Sum(Members(obj), "yy"),
         Ixy |-> Sum(Members(obj), "xy"), scale |-> m * m]

\* ------------------------------------------------------ symbolic values
\* the float 0.0
Zero == [kind |-> "num", arg |-> 0]
\* np.sqrt(n) of a non-negative integer n
Sqrt(n) == IF n = 0 THEN Zero ELSE [kind |-> "sqrt", arg |-> n]
\* the k-th quantity computed from the fitted quadratic over the fitted poles
Fit(k) == [kind |-> "fit", arg |-> k]
\* the k-th quantity computed from the fitted quadratic over the manual poles
FitManual(k) == [kind |-> "fitManual", arg |-> k]

ZeroRecord == << Zero, Zero, Zero, Zero, Zero >>

\* ------------------------------------------------------------- rasters
\* tiffF.threshXArr(): XSide x XSide, a white X on black
\* a raster whose positive pixels are known exactly has exact = TRUE and
\* carries them in samples, as (x, y) = (column, row) pairs
ThreshXArr == [kind |-> "threshX", side |-> XSide, positive |-> TRUE,
               exact |-> FALSE, samples |-> {}]
NoRaster == [kind |-> "none", side |-> 0, positive |-> FALSE,
             exact |-> FALSE, samples |-> {}]

\* the positive pixels of spindleImg = imageArr * spindleArr, as (x, y)
SpindleSamples(img, obj) ==
    { <<p[2], p[1]>> : p \in { q \in Members(obj) : Intensity(img, q[1], q[2]) > 0 } }

\* all pixels of the object lie in one row and span several columns: then
\* Iyy = Ixy = 0.0 < Ixx, eig returns the identity, the eigenvector of the
\* least eigenvalue is (0, 1) and rotAngle = -arctan(0/1) * 180 / pi = -0.0
FlatRow(obj) ==
    /\ \A p \in Members(obj) : \A q \in Members(obj) : p[1] = q[1]
    /\ \E p \in Members(obj) : \E q \in Members(obj) : p[2] # q[2]

\* an angle that depends on the floating-point eigenvectors
OpenAngle == [kind |-> "arctan", arg |-> 0]

\* rotAngle, where the model knows it exactly
RotAngle(obj) == IF FlatRow(obj) THEN Zero ELSE OpenAngle

\* rotate(imageArr * spindleArr, rotAngle, order=1): a rotation by 0 degrees
\* gives the spindle raster back; any other result is left open
RotImg(img, obj) ==
    [kind |-> "rotated", side |-> 0,
     positive |-> \E p \in Members(obj) : Intensity(img, p[1], p[2]) > 0,
     exact |-> RotAngle(obj) = Zero,
     samples |-> IF RotAngle(obj) = Zero THEN SpindleSamples(img, obj) ELSE {}]
ImageRaster(img) == [kind |-> "image", side |-> 0, positive |-> img.base + img.ramp > 0,
                     exact |-> FALSE, samples |-> {}]

NoTransform == [set |-> FALSE, com |-> NoCom, tensor |-> [Ixx |-> 0, Iyy |-> 0, Ixy |-> 0, scale |-> 0],
                rotAngle |-> Zero,
                processed_center_x2 |-> 0, processed_center_y2 |-> 0]

\* the dictionary built at the end of getSpindleImg; the centre is kept doubled
TransformInfo(obj, w, h) ==
    [set |-> TRUE, com |-> obj.com, tensor |-> InertiaTensor(obj),
     rotAngle |-> RotAngle(obj),
     processed_center_x2 |-> w, processed_center_y2 |-> h]

\* which of the two detection functions an entry point calls
UsesTransform(e) == e = "spindlePlotWithOriginalCoords"

\* mutant: the empty-mask return also carries the transform slot
EmptyReturn_ThreeValues(e) == << ThreshXArr, FALSE, NoTransform >>

\* the tuple returned when totalPoints == 0
EmptyReturn(e) ==
    IF UsesTransform(e) THEN << ThreshXArr, FALSE, NoTransform >>
    ELSE << ThreshXArr, FALSE >>

\* the tuple returned at the end of the detection function
FoundReturn(e, img, obj, w, h) == << RotImg(img, obj), TRUE, TransformInfo(obj, w, h) >>

\* the least number of samples curve_fit takes for the three parameters
FitParams == 3

\* the outcomes curve_fit can have on the samples of a raster: TRUE = returns
\* parameters, FALSE = raises.  The placeholder X has 100 sample columns; a
\* raster without positive samples gives empty arrays; fewer samples than
\* parameters make leastsq raise TypeError; the samples of a raster rotated by
\* an open angle depend on the interpolation and are left open
FitOutcomes(raster) ==
    IF raster.kind = "threshX" THEN {TRUE}
    ELSE IF ~raster.positive THEN {FALSE}
    ELSE IF raster.exact THEN {Cardinality(raster.samples) >= FitParams}
    ELSE {TRUE, FALSE}

\* an (x, y) point with rational coordinates xnum/den, ynum/den; known = FALSE
\* stands for a point whose floating-point value the model leaves open
NoPoint == [known |-> FALSE, xnum |-> 0, ynum |-> 0, den |-> 1]
Point(x, y) == [known |-> TRUE, xnum |-> x, ynum |-> y, den |-> 1]

\* lines 41-42: centered_x = centered_y = 0.0
AtCentre(rotatedCoords, transformInfo) ==
    /\ 2 * rotatedCoords.xnum = transformInfo.processed_center_x2 * rotatedCoords.den
    /\ 2 * rotatedCoords.ynum = transformInfo.processed_center_y2 * rotatedCoords.den

\* mutant: step 3 translates back by the centre of the processed image
transformCoordinatesBackToOriginal_AddsCentre(rotatedCoords, transformInfo) ==
    IF ~transformInfo.set THEN rotatedCoords
    ELSE IF ~rotatedCoords.known THEN NoPoint
    ELSE IF transformInfo.rotAngle # Zero /\ ~AtCentre(rotatedCoords, transformInfo)
    THEN NoPoint
    ELSE rotatedCoords

\* lines 15-55.  For rotAngle = 0 (cos = 1, sin = 0) the result is
\* (rot_x - processed_center_x + com[0], rot_y - processed_center_y + com[1]);
\* at the centre the centred point is (0.0, 0.0), which every angle leaves in
\* place, and the result is com; elsewhere the result under an open angle is
\* left open
transformCoordinatesBackToOriginal(rotatedCoords, transformInfo) ==
    IF ~transformInfo.set THEN rotatedCoords
    ELSE IF ~rotatedCoords.known THEN NoPoint
    ELSE IF transformInfo.rotAngle # Zero /\ ~AtCentre(rotatedCoords, transformInfo)
    THEN NoPoint
    ELSE LET d == rotatedCoords.den
             m == transformInfo.com.mass
         IN  [known |-> TRUE,
              xnum |-> 2 * m * rotatedCoords.xnum
                       - transformInfo.processed_center_x2 * d * m
                       + 2 * d * transformInfo.com.xsum,
              ynum |-> 2 * m * rotatedCoords.ynum
                       - transformInfo.processed_center_y2 * d * m
                       + 2 * d * transformInfo.com.ysum,
              den |-> 2 * d * m]

\* the least / greatest x of a non-empty sample set
MinX(samples) == CHOOSE x \in { s[1] : s \in samples } : \A s \in samples : x <= s[1]
MaxX(samples) == CHOOSE x \in { s[1] : s \in samples } : \A s \in samples : x >= s[1]

\* (x, spindleFunc(x)) in rotated space: samples that all lie in one row are
\* fitted by the constant y = row; any other fit is left open
PoleRotated(raster, x) ==
    IF raster.exact /\ raster.samples # {}
          /\ \A s \in raster.samples : \A t \in raster.samples : s[2] = t[2]
    THEN Point(x, (CHOOSE s \in raster.samples : TRUE)[2])
    ELSE NoPoint

NoOutcome == [kind |-> "none", exc |-> "", data |-> << >>, exists |-> FALSE,
              raster |-> NoRaster, arity |-> 0, left |-> NoPoint, right |-> NoPoint]
Raise(e) == [NoOutcome EXCEPT !.kind = "raise", !.exc = e]
\* (data, exists) of the measurement entry points
ReturnData(d, ex) == [NoOutcome EXCEPT !.kind = "return", !.data = d, !.exists = ex, !.arity = 2]
\* ((raster, leftPole, rightPole, centerPoint), exists [, transformInfo])
ReturnPlot(ras, ex, n) ==
    [NoOutcome EXCEPT !.kind = "return", !.raster = ras, !.exists = ex, !.arity = n]
\* the same with the two poles in original image space
ReturnPlotCoords(ras, ex, lp, rp) ==
    [ReturnPlot(ras, ex, 3) EXCEPT !.left = lp, !.right = rp]

\* ------------------------------------------------- the main window
\* a .tiff file is the sequence of its frames; no file is the empty sequence
Files == UNION { [1..n -> Images] : n \in 1..MaxFrames }
NoFile == << >>

\* the values the user gives the threshold spin box
ThreshChoices == {0, 1, DefaultThresh}

\* PixLabel.imageArr: None, or an image / a mask
NoImage == [none |-> TRUE, img |-> [base |-> 0, ramp |-> 0]]
NoMask == [none |-> TRUE, pixels |-> {}]

\* history of the last Run All Frames: the range it read and the frames
\* whose loop body started; ended = the loop ran to its end
NoBatch == [started |-> FALSE, from |-> 0, to |-> 0, visited |-> << >>, ended |-> FALSE]

\* manual_left_pole / manual_right_pole = None
PoleNone == << >>

\* MainWindow.__init__ and PixLabel.__init__; raised is the exception that
\* ended the last handler ("" when it ran to its end), op the handler the
\* user started last
GuiInit ==
    [fileName |-> NoFile, frameValue |-> 1, frameMaximum |-> 1, totalFrameValue |-> 0,
     imageArr |-> NoImage, threshArr |-> NoMask, threshValue |-> DefaultThresh,
     tossedFrames |-> << >>, hasTableModel |-> FALSE, tossedRows |-> << >>,
     dataTableArray |-> << >>, isPreviewCleared |-> TRUE,
     manual_override_active |-> FALSE, manual_left_pole |-> PoleNone,
     manual_right_pole |-> PoleNone, raised |-> "", batch |-> NoBatch, op |-> ""]

\* ------------------------------------------------------------------ Init
Init ==
    /\ imageArr \in Images
    /\ arr \in Masks
    /\ entry \in Entries
    /\ IF entry \in ManualEntries
       THEN \E pp \in PolePairs : leftPole = pp[1] /\ rightPole = pp[2]
       ELSE leftPole = NoPole /\ rightPole = NoPole
    /\ pc = "extract"
    /\ r2 = << >> /\ c2 = << >>
    /\ i = 0
    /\ tObjects = << >>
    /\ startLength = 0 /\ o1 = 0 /\ o2 = 0
    /\ centerObj = 0
    /\ ret = << >>
    /\ outcome = NoOutcome
    /\ stages = {}
    /\ passLog = [n |-> 0, merged |-> FALSE, compared |-> {}]
    /\ gui = GuiInit

inputs == << imageArr, arr, entry, leftPole, rightPole >>

\* ------------------------------------------------- the detection function
\* mutant: the points are taken out of the caller's mask as they are listed
ExtractPoints_InPlace ==
    /\ pc = "extract"
    /\ LET ps == ScanPoints(arr)
           totalPoints == Len(ps)
       IN  /\ r2' = Rows(ps)
           /\ c2' = Cols(ps)
           /\ IF totalPoints = 0
              THEN /\ ret' = EmptyReturn(entry)
                   /\ pc' = "returned"
                   /\ tObjects' = tObjects
              ELSE /\ ret' = ret
                   /\ pc' = "cluster"
                   /\ tObjects' = << thresholdObject(Cols(ps)[1], Rows(ps)[1]) >>
    /\ i' = 0
    /\ arr' = {}
    /\ UNCHANGED << gui, imageArr, entry, leftPole, rightPole, passLog, startLength, o1, o2,
                    centerObj, outcome, stages >>

\* lines 248-274: list the foreground points; empty mask returns the X
ExtractPoints ==
    /\ pc = "extract"
    /\ LET ps == ScanPoints(arr)
           totalPoints == Len(ps)
       IN  /\ r2' = Rows(ps)
           /\ c2' = Cols(ps)
           /\ IF totalPoints = 0
              THEN /\ ret' = EmptyReturn(entry)
                   /\ pc' = "returned"
                   /\ tObjects' = tObjects
              ELSE /\ ret' = ret
                   /\ pc' = "cluster"
                   /\ tObjects' = << thresholdObject(Cols(ps)[1], Rows(ps)[1]) >>
    /\ i' = 0
    /\ UNCHANGED << gui, inputs, passLog, startLength, o1, o2, centerObj, outcome, stages >>

\* lines 277-303: one iteration of the loop over the points
ClusterPoint ==
    /\ pc = "cluster"
    /\ i < Len(c2)
    /\ tObjects' = PlacePoint(tObjects, c2[i + 1], r2[i + 1])
    /\ i' = i + 1
    /\ stages' = stages \cup {"cluster"}
    /\ UNCHANGED << gui, inputs, passLog, pc, r2, c2, startLength, o1, o2, centerObj, ret, outcome >>

\* lines 311-314: sort, and set startLength to enter the loop
SortStep ==
    /\ pc = "cluster"
    /\ i = Len(c2)
    /\ tObjects' = SortObjects(tObjects)
    /\ startLength' = Len(tObjects) + 1
    /\ pc' = "consolidate"
    /\ UNCHANGED << gui, inputs, passLog, r2, c2, i, o1, o2, centerObj, ret, outcome, stages >>

\* lines 316-322: the test of the outer while, and the start of a pass
PassStart ==
    /\ pc = "consolidate"
    /\ IF startLength # Len(tObjects)
       THEN /\ startLength' = Len(tObjects)
            /\ o1' = 0
            /\ o2' = 1
            /\ pc' = "scan"
            /\ stages' = stages \cup {"consolidate"}
            /\ passLog' = [n |-> passLog.n + 1, merged |-> FALSE, compared |-> {}]
       ELSE /\ pc' = "centroid"
            /\ UNCHANGED << startLength, o1, o2, stages, passLog >>
    /\ UNCHANGED << gui, inputs, r2, c2, i, tObjects, centerObj, ret, outcome >>

\* mutant: startLength follows the number of objects at every merge
ComparePair_TracksLength ==
    /\ pc = "scan"
    /\ o1 < Len(tObjects)
    /\ o2 < Len(tObjects)
    /\ tObjects' = IF AnyWithinMerge(tObjects[o1 + 1], tObjects[o2 + 1])
                   THEN MergeObjects(tObjects, o1 + 1, o2 + 1)
                   ELSE tObjects
    /\ startLength' = Len(tObjects')
    /\ o2' = o2 + 1
    /\ passLog' = [passLog EXCEPT
                      !.merged = @ \/ AnyWithinMerge(tObjects[o1 + 1], tObjects[o2 + 1]),
                      !.compared = @ \cup {<<o1, o2>>}]
    /\ UNCHANGED << gui, inputs, pc, r2, c2, i, o1, centerObj, ret, outcome, stages >>

\* lines 324-343: compare objects o1 and o2, merge on a hit, o2 += 1
ComparePair ==
    /\ pc = "scan"
    /\ o1 < Len(tObjects)
    /\ o2 < Len(tObjects)
    /\ tObjects' = IF AnyWithinMerge(tObjects[o1 + 1], tObjects[o2 + 1])
                   THEN MergeObjects(tObjects, o1 + 1, o2 + 1)
                   ELSE tObjects
    /\ o2' = o2 + 1
    /\ passLog' = [passLog EXCEPT
                      !.merged = @ \/ AnyWithinMerge(tObjects[o1 + 1], tObjects[o2 + 1]),
                      !.compared = @ \cup {<<o1, o2>>}]
    /\ UNCHANGED << gui, inputs, pc, r2, c2, i, startLength, o1, centerObj, ret, outcome, stages >>

\* lines 321-322, 344: o1 += 1 and o2 = o1 + 1
NextObject ==
    /\ pc = "scan"
    /\ o1 < Len(tObjects)
    /\ o2 >= Len(tObjects)
    /\ o1' = o1 + 1
    /\ o2' = o1 + 2
    /\ UNCHANGED << gui, inputs, passLog, pc, r2, c2, i, tObjects, startLength, centerObj, ret, outcome, stages >>

\* line 321 false: the pass is over, back to the outer test
PassEnd ==
    /\ pc = "scan"
    /\ o1 >= Len(tObjects)
    /\ pc' = "consolidate"
    /\ UNCHANGED << gui, inputs, passLog, r2, c2, i, tObjects, startLength, o1, o2, centerObj, ret, outcome, stages >>

\* lines 347-357: centre of mass of each object
Centroids ==
    /\ pc = "centroid"
    /\ tObjects' = [o \in 1..Len(tObjects) |->
                       [tObjects[o] EXCEPT !.com = CenterOfMass(imageArr, tObjects[o])]]
    /\ pc' = "select"
    /\ stages' = stages \cup {"centroid"}
    /\ UNCHANGED << gui, inputs, passLog, r2, c2, i, startLength, o1, o2, centerObj, ret, outcome >>

\* lines 360-378: pick the spindle; reading an unbound centerObj raises
SelectStep ==
    /\ pc = "select"
    /\ centerObj' = SelectSpindle(tObjects, Width, Height)
    /\ stages' = stages \cup {"select"}
    /\ IF centerObj' = 0
       THEN /\ outcome' = Raise("UnboundLocalError")
            /\ pc' = "done"
       ELSE /\ outcome' = outcome
            /\ pc' = "align"
    /\ UNCHANGED << gui, inputs, passLog, r2, c2, i, tObjects, startLength, o1, o2, ret >>

\* lines 381-417: spindle raster, inertia tensor, eig, rotate, return;
\* eig raises on a tensor that holds NaN
AlignStep ==
    /\ pc = "align"
    /\ LET spindle == tObjects[centerObj]
       IN  IF IsNaN(spindle.com)
           THEN /\ outcome' = Raise("LinAlgError")
                /\ pc' = "done"
                /\ UNCHANGED << ret, stages >>
           ELSE /\ ret' = FoundReturn(entry, imageArr, spindle, Width, Height)
                /\ pc' = "returned"
                /\ stages' = stages \cup {"rotate"}
                /\ outcome' = outcome
    /\ UNCHANGED << gui, inputs, passLog, r2, c2, i, tObjects, startLength, o1, o2, centerObj >>

\* ------------------------------------------------------ the entry points
\* "a, b = t" succeeds only on a tuple of that many values
Unpacks(t, n) == Len(t) = n

FitRecord == << Fit(1), Fit(2), Fit(3), Fit(4), Fit(5) >>

\* np.sqrt((rightPole[0] - leftPole[0])**2 + (rightPole[1] - leftPole[1])**2)
PoleDistance(lp, rp) ==
    Sqrt((rp[1] - lp[1]) * (rp[1] - lp[1]) + (rp[2] - lp[2]) * (rp[2] - lp[2]))

\* lines 553-631: the body of the try block, given whether curve_fit returned
ManualRecord(lp, rp, fitted) ==
    LET poleSeparation == PoleDistance(lp, rp)
        arcLength == poleSeparation
    IN  IF fitted
        THEN << poleSeparation, arcLength,
                IF rp[1] # lp[1] THEN FitManual(3) ELSE Zero,
                Fit(4),
                IF rp[1] # lp[1] THEN FitManual(5) ELSE Zero >>
        ELSE << poleSeparation, arcLength, Zero, Zero, Zero >>

\* lines 419-492
spindleMeasurements ==
    /\ pc = "returned"
    /\ entry = "spindleMeasurements"
    /\ IF ~Unpacks(ret, 2)
       THEN outcome' = Raise("ValueError") /\ stages' = stages
       ELSE IF ~ret[2]
       THEN outcome' = ReturnData(ZeroRecord, ret[2]) /\ stages' = stages
       ELSE \E ok \in FitOutcomes(ret[1]) :
               /\ stages' = stages \cup {"fit"}
               /\ outcome' = IF ok THEN ReturnData(FitRecord, ret[2])
                             ELSE Raise("curve_fit")
    /\ pc' = "done"
    /\ UNCHANGED << gui, inputs, passLog, r2, c2, i, tObjects, startLength, o1, o2, centerObj, ret >>

\* lines 494-530: no test of doesSpindleExist before the fit
spindlePlot ==
    /\ pc = "returned"
    /\ entry = "spindlePlot"
    /\ IF ~Unpacks(ret, 2)
       THEN outcome' = Raise("ValueError") /\ stages' = stages
       ELSE \E ok \in FitOutcomes(ret[1]) :
               /\ stages' = stages \cup {"fit"}
               /\ outcome' = IF ok THEN ReturnPlot(ret[1], ret[2], 2)
                             ELSE Raise("curve_fit")
    /\ pc' = "done"
    /\ UNCHANGED << gui, inputs, passLog, r2, c2, i, tObjects, startLength, o1, o2, centerObj, ret >>

\* lines 532-631: the call of getSpindleImg is outside the try block
spindleMeasurementsManual ==
    /\ pc = "returned"
    /\ entry = "spindleMeasurementsManual"
    /\ IF ~Unpacks(ret, 2)
       THEN outcome' = Raise("ValueError") /\ stages' = stages
       ELSE IF ~ret[2]
       THEN outcome' = ReturnData(ZeroRecord, FALSE) /\ stages' = stages
       ELSE IF ~ret[1].positive
       THEN /\ outcome' = ReturnData(ManualRecord(leftPole, rightPole, FALSE), TRUE)
            /\ stages' = stages
       ELSE \E ok \in FitOutcomes(ret[1]) :
               /\ stages' = stages \cup {"fit"}
               /\ outcome' = ReturnData(ManualRecord(leftPole, rightPole, ok), TRUE)
    /\ pc' = "done"
    /\ UNCHANGED << gui, inputs, passLog, r2, c2, i, tObjects, startLength, o1, o2, centerObj, ret >>

\* mutant: the flag of the detection is passed on as it came
spindlePlotManual_KeepsFlag ==
    /\ pc = "returned"
    /\ entry = "spindlePlotManual"
    /\ IF ~Unpacks(ret, 2)
       THEN outcome' = Raise("ValueError")
       ELSE outcome' = ReturnPlot(ret[1], ret[2], 2)
    /\ pc' = "done"
    /\ UNCHANGED << gui, inputs, passLog, r2, c2, i, tObjects, startLength, o1, o2, centerObj, ret, stages >>

\* lines 633-648: no fit; an absent spindle is forced to exist
spindlePlotManual ==
    /\ pc = "returned"
    /\ entry = "spindlePlotManual"
    /\ IF ~Unpacks(ret, 2)
       THEN outcome' = Raise("ValueError")
       ELSE IF ~ret[2]
       THEN outcome' = ReturnPlot(ImageRaster(imageArr), TRUE, 2)
       ELSE outcome' = ReturnPlot(ret[1], ret[2], 2)
    /\ pc' = "done"
    /\ UNCHANGED << gui, inputs, passLog, r2, c2, i, tObjects, startLength, o1, o2, centerObj, ret, stages >>

\* lines 659-709: calls getSpindleImgWithTransform and unpacks three values
spindlePlotWithOriginalCoords ==
    /\ pc = "returned"
    /\ entry = "spindlePlotWithOriginalCoords"
    /\ IF ~Unpacks(ret, 3)
       THEN outcome' = Raise("ValueError") /\ stages' = stages
       ELSE IF ~ret[2]
       THEN /\ outcome' = ReturnPlotCoords(ret[1], ret[2], Point(0, 0), Point(0, 0))
            /\ stages' = stages
       ELSE \E ok \in FitOutcomes(ret[1]) :
               /\ stages' = stages \cup {"fit"}
               /\ outcome' =
                     IF ok
                     THEN LET leftPole_rotated == PoleRotated(ret[1], MinX(ret[1].samples))
                              rightPole_rotated == PoleRotated(ret[1], MaxX(ret[1].samples))
                          IN  ReturnPlotCoords(ImageRaster(imageArr), ret[2],
                                  transformCoordinatesBackToOriginal(leftPole_rotated, ret[3]),
                                  transformCoordinatesBackToOriginal(rightPole_rotated, ret[3]))
                     ELSE Raise("curve_fit")
    /\ pc' = "done"
    /\ UNCHANGED << gui, inputs, passLog, r2, c2, i, tObjects, startLength, o1, o2, centerObj, ret >>

\* ------------------------------------------- the calls as functions
\* lines 277-303: the loop over the points from point k on
RECURSIVE ClusterFrom(_, _, _)
ClusterFrom(objs, ps, k) ==
    IF k > Len(ps) THEN objs
    ELSE ClusterFrom(PlacePoint(objs, ps[k][2], ps[k][1]), ps, k + 1)

\* lines 321-344: the rest of a pass from the pair (a, b) = (o1, o2) on
RECURSIVE ScanPass(_, _, _)
ScanPass(objs, a, b) ==
    IF a >= Len(objs) THEN objs
    ELSE IF b >= Len(objs) THEN ScanPass(objs, a + 1, a + 2)
    ELSE ScanPass(IF AnyWithinMerge(objs[a + 1], objs[b + 1])
                  THEN MergeObjects(objs, a + 1, b + 1) ELSE objs,
                  a, b + 1)

\* lines 316-344: while startLength != len(tObjects)
RECURSIVE ConsolidateLoop(_, _)
ConsolidateLoop(objs, startLen) ==
    IF startLen = Len(objs) THEN objs
    ELSE ConsolidateLoop(ScanPass(objs, 0, 1), Len(objs))

\* line 274 and lines 277-303: the clusters of the points ps
Clustered(ps) == ClusterFrom(<< thresholdObject(ps[1][2], ps[1][1]) >>, ps, 1)

\* lines 311-344: the sort and the consolidation of the clusters
ConsolidatedObjects(clustered) == ConsolidateLoop(SortObjects(clustered), Len(clustered) + 1)

\* lines 347-357: the centre of mass of every cluster
WithCentroids(img, merged) ==
    [o \in 1..Len(merged) |-> [merged[o] EXCEPT !.com = CenterOfMass(img, merged[o])]]

\* lines 376-417: the cluster of index c (0 = centerObj unbound) and its return
SelectedReturn(e, img, objs, c, w, h) ==
    IF c = 0 THEN [exc |-> "UnboundLocalError", ret |-> << >>]
    ELSE IF IsNaN(objs[c].com) THEN [exc |-> "LinAlgError", ret |-> << >>]
    ELSE [exc |-> "", ret |-> FoundReturn(e, img, objs[c], w, h)]

\* lines 359-417: the selection among the clusters objs
ReturnFromObjects(e, img, objs, w, h) ==
    SelectedReturn(e, img, objs, SelectSpindle(objs, w, h), w, h)

\* lines 265-417: the call on the foreground points ps
ReturnFromPoints(e, img, ps, w, h) ==
    IF Len(ps) = 0 THEN [exc |-> "", ret |-> EmptyReturn(e)]
    ELSE ReturnFromObjects(e, img, WithCentroids(img, ConsolidatedObjects(Clustered(ps))), w, h)

\* lines 240-417 as a function of the call's arguments: the exception that
\* ends the call ("" when it returns) and the tuple it returns
getSpindleImg(e, img, mask, w, h) == ReturnFromPoints(e, img, ScanPoints(mask), w, h)

\* lines 420-492: the unpacking of the return d and the measurement
MeasurementsFrom(d) ==
    IF d.exc # "" THEN {Raise(d.exc)}
    ELSE IF ~Unpacks(d.ret, 2) THEN {Raise("ValueError")}
    ELSE IF ~d.ret[2] THEN {ReturnData(ZeroRecord, d.ret[2])}
    ELSE { IF ok THEN ReturnData(FitRecord, d.ret[2]) ELSE Raise("curve_fit") :
              ok \in FitOutcomes(d.ret[1]) }

\* lines 419-492 as a function of the call's arguments: the outcomes the call
\* can have (several only where the outcome of curve_fit is left open)
spindleMeasurementsResult(img, mask, w, h) ==
    MeasurementsFrom(getSpindleImg("spindleMeasurements", img, mask, w, h))

\* lines 496-530: the unpacking of the return d and the fit
PlotExcsFrom(d) ==
    IF d.exc # "" THEN {d.exc}
    ELSE IF ~Unpacks(d.ret, 2) THEN {"ValueError"}
    ELSE { IF ok THEN "" ELSE "curve_fit" : ok \in FitOutcomes(d.ret[1]) }

\* lines 548-631: the unpacking of the return d and the manual measurement
ManualMeasurementsFrom(d, lp, rp) ==
    IF d.exc # "" THEN {Raise(d.exc)}
    ELSE IF ~Unpacks(d.ret, 2) THEN {Raise("ValueError")}
    ELSE IF ~d.ret[2] THEN {ReturnData(ZeroRecord, FALSE)}
    ELSE IF ~d.ret[1].positive THEN {ReturnData(ManualRecord(lp, rp, FALSE), TRUE)}
    ELSE { ReturnData(ManualRecord(lp, rp, ok), TRUE) : ok \in FitOutcomes(d.ret[1]) }

\* lines 532-631 as a function of the call's arguments
spindleMeasurementsManualResult(img, mask, lp, rp, w, h) ==
    ManualMeasurementsFrom(getSpindleImg("spindleMeasurementsManual", img, mask, w, h), lp, rp)

\* lines 494-530 as a function: the exception that ends spindlePlot, "" when
\* it returns
spindlePlotExcs(img, mask, w, h) ==
    PlotExcsFrom(getSpindleImg("spindlePlot", img, mask, w, h))

\* lines 635-648: the unpacking of the return d
PlotManualExcsFrom(d) ==
    IF d.exc # "" THEN {d.exc}
    ELSE IF ~Unpacks(d.ret, 2) THEN {"ValueError"}
    ELSE {""}

\* lines 633-648 as a function: the exception that ends spindlePlotManual
spindlePlotManualExcs(img, mask, w, h) ==
    PlotManualExcsFrom(getSpindleImg("spindlePlotManual", img, mask, w, h))

\* ------------------------------------------- the handlers of the window
\* run F on the states of S in which no exception is on its way
Then(S, F(_)) == UNION { IF g.raised # "" THEN {g} ELSE F(g) : g \in S }

\* an exception that leaves a slot called by a signal is printed by the
\* binding and does not reach the code that changed the widget
Swallow(S) == { [g EXCEPT !.raised = ""] : g \in S }

Min2(a, b) == IF a < b THEN a ELSE b
Max2(a, b) == IF a > b THEN a ELSE b

InSeq(x, sq) == \E k \in 1..Len(sq) : sq[k] = x

\* list.sort() of a list of integers
RECURSIVE SortInts(_)
SortInts(sq) ==
    IF sq = << >> THEN << >>
    ELSE LET least == CHOOSE k \in 1..Len(sq) : \A n \in 1..Len(sq) : sq[k] <= sq[n]
         IN  <<sq[least]>> \o SortInts(RemoveAt(sq, least))

\* list.remove(x) of an element that is in the list
RemoveFirst(sq, x) ==
    RemoveAt(sq, CHOOSE k \in 1..Len(sq) : sq[k] = x /\ \A n \in 1..(k - 1) : sq[n] # x)

\* mutant: the reset of the manual override writes True
clearThreshAndPreview_SetsActive(g) ==
    IF g.fileName # NoFile
    THEN [g EXCEPT !.isPreviewCleared = TRUE, !.manual_override_active = TRUE,
                   !.manual_left_pole = PoleNone, !.manual_right_pole = PoleNone]
    ELSE g

\* spindleGUI.py lines 713-723
clearThreshAndPreview(g) ==
    IF g.fileName # NoFile
    THEN [g EXCEPT !.isPreviewCleared = TRUE, !.manual_override_active = FALSE,
                   !.manual_left_pole = PoleNone, !.manual_right_pole = PoleNone]
    ELSE g

\* lines 474-500: the calls of spindlePlot / spindlePlotManual
onPreviewClicked(g) ==
    IF g.fileName = NoFile THEN {g}
    ELSE LET excs ==
                 IF g.imageArr.none \/ g.threshArr.none THEN {"AttributeError"}
                 ELSE IF g.manual_override_active
                 THEN spindlePlotManualExcs(g.imageArr.img, g.threshArr.pixels, Width, Height)
                 ELSE spindlePlotExcs(g.imageArr.img, g.threshArr.pixels, Width, Height)
         IN  { IF e = "" THEN [g EXCEPT !.isPreviewCleared = FALSE]
               ELSE [g EXCEPT !.raised = e] : e \in excs }

\* threshFunctions.py lines 4-17: arr > thresh
applyThreshToArr(img, thresh) ==
    { p \in (0..(Height - 1)) \X (0..(Width - 1)) : Intensity(img, p[1], p[2]) > thresh }

\* lines 458-471: the call of applyThreshToArr passes ThreshArgsPassed
\* arguments to a function of ThreshParams parameters
applyThreshold(g, cleared) ==
    LET g1 == IF cleared THEN g ELSE clearThreshAndPreview(g)
    IN  IF g1.fileName = NoFile THEN {g1}
        ELSE IF ThreshArgsPassed # ThreshParams THEN {[g1 EXCEPT !.raised = "TypeError"]}
        ELSE onPreviewClicked(
                 [g1 EXCEPT !.threshArr =
                      [none |-> FALSE,
                       pixels |-> applyThreshToArr(g1.imageArr.img, g1.threshValue)]])

\* lines 443-455; tiffF.arrFromTiff(fileName, frameValue - 1)
onFrameUpdate(g) ==
    LET g1 == clearThreshAndPreview(g)
    IN  IF g1.fileName = NoFile \/ g1.frameValue > Len(g1.fileName)
        THEN {[g1 EXCEPT !.raised = "arrFromTiff"]}
        ELSE Then(applyThreshold(
                      [g1 EXCEPT !.imageArr = [none |-> FALSE, img |-> g1.fileName[g1.frameValue]]],
                      TRUE),
                  onPreviewClicked)

\* QSpinBox.setValue on frameValue: the value is clamped to the range of the
\* box; a change emits textChanged, which calls the slot onFrameUpdate
frameValue_setValue(g, v) ==
    LET nv == Max2(1, Min2(v, g.frameMaximum))
    IN  IF nv = g.frameValue THEN {g}
        ELSE Swallow(onFrameUpdate([g EXCEPT !.frameValue = nv]))

\* QSpinBox.setValue on threshValue: a change calls the slot applyThreshold
threshValue_setValue(g, v) ==
    IF v = g.threshValue THEN {g}
    ELSE Swallow(applyThreshold([g EXCEPT !.threshValue = v], FALSE))

\* lines 396-428; f is the file chosen in the dialog, NoFile when cancelled
onInputTiffClicked(g, f) ==
    IF f = NoFile THEN {g}
    ELSE LET loaded(h) ==
                 LET numFrames == Len(h.fileName)
                     h1 == [h EXCEPT !.frameMaximum = numFrames,
                                     !.totalFrameValue = numFrames,
                                     !.dataTableArray = [k \in 1..numFrames |-> ZeroRecord],
                                     !.hasTableModel = TRUE,
                                     !.tossedRows = << >>,
                                     !.tossedFrames = << >>]
                 IN  Then(frameValue_setValue(h1, 1),
                          LAMBDA h2 : threshValue_setValue(h2, DefaultThresh))
         IN  Then(Then(frameValue_setValue(clearThreshAndPreview([g EXCEPT !.fileName = f]), 1),
                       onFrameUpdate),
                  loaded)

\* lines 519-529: the slot of the dialog's signal manual_positions_changed
on_manual_positions_changed(g, left_pole, right_pole) ==
    onPreviewClicked([g EXCEPT !.manual_override_active = TRUE,
                               !.manual_left_pole = left_pole,
                               !.manual_right_pole = right_pole])

\* lines 503-517 with ManualSpindleDialog.__init__ (its call of cFD.spindlePlot)
\* and apply_manual_adjustment: the user leaves the dialog with the poles pp
\* applied, or closes it
onManualOverrideClicked(g, pp, applied) ==
    IF g.fileName = NoFile \/ g.imageArr.none \/ g.threshArr.none THEN {g}
    ELSE UNION { IF e # "" THEN {[g EXCEPT !.raised = e]}
                 ELSE IF applied THEN Swallow(on_manual_positions_changed(g, pp[1], pp[2]))
                 ELSE {g} :
                 e \in spindlePlotExcs(g.imageArr.img, g.threshArr.pixels, Width, Height) }

\* lines 549-566: the record of the measurement m of the current frame
addRecord(g, m) ==
    LET frameIndex == g.frameValue - 1
    IN  IF m.kind = "raise" THEN {[g EXCEPT !.raised = m.exc]}
        ELSE IF ~m.exists THEN {g}
        ELSE IF ~g.hasTableModel THEN {[g EXCEPT !.raised = "AttributeError"]}
        ELSE IF frameIndex + 1 \notin 1..Len(g.dataTableArray)
        THEN {[g EXCEPT !.raised = "IndexError"]}
        ELSE Then(frameValue_setValue([g EXCEPT !.dataTableArray[frameIndex + 1] = m.data],
                                      Min2(frameIndex + 2, g.totalFrameValue)),
                  onPreviewClicked)

\* lines 532-547: the measurement Add takes of the current frame
addMeasurement(g) ==
    IF g.imageArr.none \/ g.threshArr.none THEN {Raise("AttributeError")}
    ELSE IF g.manual_override_active
    THEN spindleMeasurementsManualResult(g.imageArr.img, g.threshArr.pixels,
                                         g.manual_left_pole, g.manual_right_pole,
                                         Width, Height)
    ELSE spindleMeasurementsResult(g.imageArr.img, g.threshArr.pixels, Width, Height)

\* lines 532-566
onAddDataClicked(g) ==
    IF g.fileName = NoFile THEN {g}
    ELSE UNION { addRecord(g, m) : m \in addMeasurement(g) }

\* lines 569-590
onTossDataClicked(g) ==
    LET tossedFrame == g.frameValue
        isIn == InSeq(tossedFrame, g.tossedFrames)
    IN  IF g.fileName = NoFile THEN {g}
        ELSE LET g1 == [g EXCEPT !.tossedFrames =
                            IF isIn THEN RemoveFirst(@, tossedFrame)
                            ELSE SortInts(Append(@, tossedFrame))]
             IN  IF ~g1.hasTableModel THEN {[g1 EXCEPT !.raised = "AttributeError"]}
                 ELSE IF isIn /\ ~InSeq(tossedFrame, g1.tossedRows)
                 THEN {[g1 EXCEPT !.raised = "ValueError"]}
                 ELSE Then(frameValue_setValue(
                               [g1 EXCEPT !.tossedRows =
                                    IF isIn THEN RemoveFirst(@, tossedFrame)
                                    ELSE Append(@, tossedFrame)],
                               Min2(tossedFrame + 1, g1.totalFrameValue)),
                           onPreviewClicked)

\* lines 841-857: the measurement of one frame of the batch and its record
measureFrame(g, frame) ==
    LET results ==
            IF g.imageArr.none \/ g.threshArr.none THEN {Raise("AttributeError")}
            ELSE spindleMeasurementsResult(g.imageArr.img, g.threshArr.pixels, Width, Height)
    IN  { IF m.kind = "raise" THEN [g EXCEPT !.raised = m.exc]
          ELSE IF m.exists
          THEN IF ~g.hasTableModel THEN [g EXCEPT !.raised = "AttributeError"]
               ELSE IF frame \in 1..Len(g.dataTableArray)
               THEN [g EXCEPT !.dataTableArray[frame] = m.data]
               ELSE [g EXCEPT !.raised = "IndexError"]
          ELSE IF InSeq(frame, g.tossedFrames) THEN g
          ELSE IF ~g.hasTableModel
          THEN [g EXCEPT !.tossedFrames = SortInts(Append(@, frame)),
                         !.raised = "AttributeError"]
          ELSE [g EXCEPT !.tossedFrames = SortInts(Append(@, frame)),
                         !.tossedRows = Append(@, frame)] : m \in results }

\* lines 833-857: the loop "for frame in range(currentFrame, totalFrames + 1)"
\* from frame on; an exception in the body leaves the loop and the handler
RECURSIVE runFrames(_, _, _)
runFrames(g, frame, totalFrames) ==
    IF g.raised # "" THEN {g}
    ELSE IF frame > totalFrames THEN {[g EXCEPT !.batch.ended = TRUE]}
    ELSE LET g0 == [g EXCEPT !.batch.visited = Append(@, frame)]
             body == Then(Then(Then(frameValue_setValue(g0, frame),
                                    LAMBDA h : applyThreshold(h, FALSE)),
                               onPreviewClicked),
                          LAMBDA h : measureFrame(h, frame))
         IN  UNION { runFrames(h, frame + 1, totalFrames) : h \in body }

\* lines 827-860
onRunAllFramesClicked(g) ==
    IF g.fileName = NoFile THEN {g}
    ELSE runFrames([g EXCEPT !.batch = [started |-> TRUE, from |-> g.frameValue,
                                        to |-> g.totalFrameValue, visited |-> << >>,
                                        ended |-> FALSE]],
                   g.frameValue, g.totalFrameValue)

\* the variables of a call of the measurement module
callVars == << inputs, pc, r2, c2, i, tObjects, startLength, o1, o2, centerObj,
               ret, outcome, stages, passLog >>

\* the window as the handler op finds it: no exception, no batch history
Idle(g, op) == [g EXCEPT !.raised = "", !.batch = NoBatch, !.op = op]

\* the user picks a file in the dialog of the .tiff button, or cancels it
ClickInputTiff ==
    /\ \E f \in Files \cup {NoFile} : gui' \in onInputTiffClicked(Idle(gui, "load"), f)
    /\ UNCHANGED callVars

\* the user gives the threshold spin box another value
EditThreshold ==
    /\ \E v \in ThreshChoices \ {gui.threshValue} :
          gui' \in threshValue_setValue(Idle(gui, "threshold"), v)
    /\ UNCHANGED callVars

\* the user gives the frame spin box a value; the box keeps it in its range
EditFrame ==
    /\ \E v \in 1..MaxFrames : gui' \in frameValue_setValue(Idle(gui, "frame"), v)
    /\ UNCHANGED callVars

\* the user clicks Manual (or presses M) and applies poles or closes the dialog
ClickManualOverride ==
    /\ \E pp \in PolePairs : \E applied \in BOOLEAN :
          gui' \in onManualOverrideClicked(Idle(gui, "manual"), pp, applied)
    /\ UNCHANGED callVars

\* the user clicks Add (or presses the right arrow key)
ClickAddData ==
    /\ gui' \in onAddDataClicked(Idle(gui, "add"))
    /\ UNCHANGED callVars

\* the user clicks Toss (or presses the left arrow key)
ClickToss ==
    /\ gui' \in onTossDataClicked(Idle(gui, "toss"))
    /\ UNCHANGED callVars

ClickRunAllFrames ==
    /\ gui' \in onRunAllFramesClicked(Idle(gui, "runAll"))
    /\ UNCHANGED callVars

NextGUI ==
    \/ ClickInputTiff
    \/ EditThreshold
    \/ EditFrame
    \/ ClickManualOverride
    \/ ClickAddData
    \/ ClickToss
    \/ ClickRunAllFrames

\* the window after construction; no call of the measurement module is open
InitGUI ==
    /\ Init
    /\ entry = "spindleMeasurements"
    /\ arr = {}
    /\ imageArr = [base |-> 0, ramp |-> 0]

SpecGUI == InitGUI /\ [][NextGUI]_vars

Next ==
    \/ ExtractPoints
    \/ ClusterPoint
    \/ SortStep
    \/ PassStart
    \/ ComparePair
    \/ NextObject
    \/ PassEnd
    \/ Centroids
    \/ SelectStep
    \/ AlignStep
    \/ spindleMeasurements
    \/ spindlePlot
    \/ spindleMeasurementsManual
    \/ spindlePlotManual
    \/ spindlePlotWithOriginalCoords

Spec == Init /\ [][Next]_vars

\* the detection up to the end of the consolidation loop, on one image and
\* for one entry point, with the fairness of sequential code: a call that can
\* take a step takes it
InitConsolidate ==
    /\ Init
    /\ entry = "spindleMeasurements"
    /\ imageArr = [base |-> 1, ramp |-> 0]

NextConsolidate ==
    \/ ExtractPoints
    \/ ClusterPoint
    \/ SortStep
    \/ PassStart
    \/ ComparePair
    \/ NextObject
    \/ PassEnd

SpecConsolidate ==
    InitConsolidate /\ [][NextConsolidate]_vars /\ WF_vars(NextConsolidate)

\* ======================================================================
\* Properties
\* ======================================================================
Done == pc = "done"
\* every pixel of the image has a positive intensity
PositiveImage == imageArr.base > 0
Returned == Done /\ outcome.kind = "return"

\* C1: on a mask without foreground pixel spindleMeasurements returns
\* exists = False with a record of five 0.0, and no clustering, consolidation,
\* centroid, selection, rotation or curve fit stage runs during the call.
C1_EmptyMaskSentinel ==
    (entry = "spindleMeasurements" /\ arr = {}) =>
        /\ stages = {}
        /\ tObjects = << >>
        /\ Done => outcome = ReturnData(ZeroRecord, FALSE)

C1_Witness ==
    /\ entry = "spindleMeasurements" /\ arr = {} /\ Returned
    /\ Len(outcome.data) = 5

\* C2: on a mask with at least one foreground pixel spindleMeasurements
\* returns exists = True and a record of five entries (stated here for the
\* images whose intensities are all positive).
C2_NonEmptyMeasured ==
    (entry = "spindleMeasurements" /\ arr # {} /\ PositiveImage /\ Done) =>
        /\ outcome.kind = "return"
        /\ outcome.exists
        /\ Len(outcome.data) = 5

\* the chain relation of C3, stated on the mask alone
ChainStep(p, q) == Abs(p[1] - q[1]) < 10 /\ Abs(p[2] - q[2]) < 10

RECURSIVE Reach(_, _)
Reach(S, all) ==
    LET nxt == S \cup { q \in all : \E p \in S : ChainStep(p, q) }
    IN  IF nxt = S THEN S ELSE Reach(nxt, all)

Linked(p, q) == q \in Reach({p}, arr)

SameCluster(p, q) ==
    \E o \in 1..Len(tObjects) :
        p \in Members(tObjects[o]) /\ q \in Members(tObjects[o])

Consolidated == arr # {} /\ pc \in {"centroid", "select", "align", "returned", "done"}

\* C3: after the clustering pass and the consolidation pass, two foreground
\* pixels are in the same cluster exactly when a chain of foreground pixels
\* links them in which consecutive pixels differ by less than 10 in row and
\* in column.
C3_ClustersAreChainComponents ==
    Consolidated =>
        \A p \in arr : \A q \in arr : SameCluster(p, q) <=> Linked(p, q)

\* two pixels merged only through a third one, next to a cluster kept apart
C3_Witness ==
    /\ Consolidated
    /\ \E p \in arr : \E q \in arr : \E r \in arr :
          /\ SameCluster(p, q) /\ ~ChainStep(p, q)
          /\ ~SameCluster(p, r)

\* the foreground pixels the clustering loop has gone through
Processed ==
    IF pc = "cluster" THEN { <<r2[k], c2[k]>> : k \in 1..i }
    ELSE { <<r2[k], c2[k]>> : k \in 1..Len(c2) }

ClustersOf(p) == { o \in 1..Len(tObjects) : p \in Members(tObjects[o]) }

\* C4: during the clustering pass and after every merge of the consolidation
\* pass, each foreground pixel processed so far is a member of exactly one
\* live cluster.
C4_ExactlyOneLiveCluster ==
    (pc \in {"cluster", "consolidate", "scan", "centroid", "select", "align"}) =>
        \A p \in Processed : Cardinality(ClustersOf(p)) = 1

\* a merge has just removed a cluster and several clusters are still live
C4_Witness ==
    /\ pc = "scan"
    /\ Len(tObjects) < startLength
    /\ Len(tObjects) >= 2
    /\ Cardinality(Processed) >= 3

\* the clusters whose point count is strictly greater than the mean count
\* and whose centroid is a number
Qualifying ==
    { o \in 1..Len(tObjects) :
        /\ tObjects[o].numPoints * Len(tObjects) > SumPoints(tObjects, Len(tObjects))
        /\ tObjects[o].com.mass # 0 }

\* centroid of a is strictly closer to the image centre than centroid of b
Closer(a, b) ==
    RatLess(DistSq(tObjects[a].com, Width, Height), DistSq(tObjects[b].com, Width, Height))

\* C5: when more than one cluster remains, the selected cluster is the one
\* closest to the image centre among the clusters whose point count is
\* strictly greater than the mean; nothing else restricts the candidates
\* (stated here for the images whose intensities are all positive).
C5_ClosestQualifyingSelected ==
    ("select" \in stages /\ Len(tObjects) > 1 /\ Qualifying # {} /\ PositiveImage) =>
        /\ centerObj \in Qualifying
        /\ \A o \in Qualifying : ~Closer(o, centerObj)

\* C6: whenever the mask has a foreground pixel, the selection step ends
\* with one selected cluster defined before the axis alignment starts
\* (stated here for the images whose intensities are all positive).
C6_SelectionDefined ==
    (arr # {} /\ "select" \in stages /\ PositiveImage) =>
        /\ centerObj \in 1..Len(tObjects)
        /\ outcome.exc # "UnboundLocalError"

\* C7: for every mask and every pair of manual poles,
\* spindleMeasurementsManual returns a record whose pole separation is the
\* Euclidean distance of the poles and whose arc length equals it.
C7_ManualPoleSeparation ==
    (entry = "spindleMeasurementsManual" /\ Done) =>
        /\ outcome.kind = "return"
        /\ Len(outcome.data) = 5
        /\ outcome.data[1] = PoleDistance(leftPole, rightPole)
        /\ outcome.data[2] = outcome.data[1]

\* C8: spindleMeasurementsManual never ends in an error: it returns a record
\* of five entries and a boolean (stated here for the images whose
\* intensities are all positive).
C8_ManualNeverRaises ==
    (entry = "spindleMeasurementsManual" /\ PositiveImage /\ Done) =>
        /\ outcome.kind = "return"
        /\ Len(outcome.data) = 5
        /\ outcome.exists \in BOOLEAN

\* the detection of this call found a structure
DetectionFound == Len(ret) >= 2 /\ ret[2]

\* the fixed near-zero value that stands for "negligible curvature"
Placeholder == [kind |-> "placeholder", arg |-> 0]

\* C9: in the manual-override measurement the area metric and the two
\* curvature entries equal the automatic result's values when the detection
\* found a structure on the frame; otherwise the area metric is 0 and the
\* curvature entries are a near-zero placeholder (stated here for the images
\* whose intensities are all positive).
C9_ManualSecondaryMetrics ==
    (entry = "spindleMeasurementsManual" /\ PositiveImage /\ Done) =>
        /\ outcome.kind = "return"
        /\ Len(outcome.data) = 5
        /\ IF DetectionFound
           THEN /\ outcome.data[3] = Fit(3)
                /\ outcome.data[4] = Fit(4)
                /\ outcome.data[5] = Fit(5)
           ELSE /\ outcome.data[3] = Zero
                /\ outcome.data[4] \in {Zero, Placeholder}
                /\ outcome.data[5] \in {Zero, Placeholder}

\* C10 as stated: on an all-false mask spindlePlot,
\* spindlePlotWithOriginalCoords, spindleMeasurementsManual and
\* spindlePlotManual all skip the curve fit and report exists = False.
C10_AllSkipFitAndReportAbsent ==
    (arr = {} /\ Done /\ entry # "spindleMeasurements") =>
        /\ outcome.kind = "return"
        /\ "fit" \notin stages
        /\ ~outcome.exists

\* C10 (amended): on an all-false mask every entry point returns;
\* spindleMeasurements, spindleMeasurementsManual and
\* spindlePlotWithOriginalCoords run no curve fit and report exists = False;
\* spindlePlot reports exists = False but runs the curve fit on the
\* placeholder raster; spindlePlotManual runs no curve fit and reports
\* exists = True.
C10_EmptyMaskEntryPoints ==
    (arr = {} /\ Done) =>
        /\ outcome.kind = "return"
        /\ (entry \in {"spindleMeasurements", "spindleMeasurementsManual",
                       "spindlePlotWithOriginalCoords"})
              => (~outcome.exists /\ "fit" \notin stages)
        /\ (entry = "spindlePlot")
              => (~outcome.exists /\ "fit" \in stages /\ outcome.raster = ThreshXArr)
        /\ (entry = "spindlePlotManual")
              => (outcome.exists /\ "fit" \notin stages)

C10_Witness ==
    /\ arr = {} /\ Returned
    /\ entry = "spindlePlotManual"
    /\ outcome.exists
    /\ outcome.raster = ImageRaster(imageArr)

\* sum of the k-th coordinate over a set of pixels
RECURSIVE SumCoord(_, _)
SumCoord(S, k) ==
    IF S = {} THEN 0
    ELSE LET p == CHOOSE p \in S : TRUE
         IN  p[k] + SumCoord(S \ {p}, k)

\* every pixel of the image has the same positive intensity
UniformImage == imageArr.ramp = 0 /\ imageArr.base > 0

\* C11: when every pixel has the same positive intensity, the centroid of
\* each cluster is (mean column, mean row) of its member pixels, each pixel
\* counted once, whatever the intensity is.
C11_UniformCentroidIsMean ==
    (UniformImage /\ "centroid" \in stages) =>
        \A o \in 1..Len(tObjects) :
            LET M == Members(tObjects[o])
                com == tObjects[o].com
            IN  /\ com.mass # 0
                /\ com.xsum * Cardinality(M) = com.mass * SumCoord(M, 2)
                /\ com.ysum * Cardinality(M) = com.mass * SumCoord(M, 1)

\* C12: when the intensities of a cluster sum to zero, the centroid step
\* detects it and the frame ends as a measurement failure: the selection, the
\* inertia tensor and the transform record never get the undefined centroid.
C12_ZeroMassStopsFrame ==
    (\E o \in 1..Len(tObjects) : tObjects[o].com.set /\ IsNaN(tObjects[o].com)) =>
        /\ "select" \notin stages
        /\ "rotate" \notin stages
        /\ Done => outcome.kind = "return" /\ ~outcome.exists

\* the detection of this call returned a raster whose samples are known
KnownSamples == Len(ret) >= 2 /\ ret[2] /\ ret[1].exact

\* the distinct x-values of the samples of a raster
SampleColumns(raster) == { s[1] : s \in raster.samples }

\* C13: when the aligned raster yields a sample set with fewer than 3
\* distinct x-values, spindleMeasurements ends with a fit-failure outcome and
\* never returns a measurement record built from a quadratic fitted to it
\* (stated here for the images whose intensities are all positive).
C13_FewColumnsFitFailure ==
    (entry = "spindleMeasurements" /\ Done /\ KnownSamples /\ PositiveImage
        /\ Cardinality(SampleColumns(ret[1])) < 3) =>
        /\ "fit" \in stages
        /\ outcome = Raise("curve_fit")

\* C14: when the left and the right pole have equal x-coordinates
\* (minX = maxX), spindleMeasurements does not evaluate the slope and the
\* average-curvature quotient with a zero divisor: the case is guarded and
\* the frame is treated as a degenerate fit.
C14_EqualPolesGuarded ==
    (entry = "spindleMeasurements" /\ Done /\ KnownSamples
        /\ \E x \in SampleColumns(ret[1]) : \A s \in ret[1].samples : s[1] = x) =>
        /\ outcome.kind = "raise"
        /\ outcome.exc \in {"curve_fit", "DegenerateFit"}

\* scipy.ndimage.rotate by 0 degrees maps every pixel to itself; the image
\* of a point under any other angle is left open
RotateForward(p, transformInfo) ==
    IF transformInfo.rotAngle = Zero THEN p ELSE NoPoint

\* |q - p| <= 1e-6 in both coordinates, p an integer (x, y) pair
Near(q, p) ==
    /\ q.known
    /\ Abs(q.xnum - p[1] * q.den) * 1000000 <= Abs(q.den)
    /\ Abs(q.ynum - p[2] * q.den) * 1000000 <= Abs(q.den)

\* C15: for every point p and every transform record produced by the axis
\* aligner, mapping p forward (the aligner's rotation) and then back with
\* transformCoordinatesBackToOriginal gives p again, within 1e-6; checked on
\* the pixels of the selected structure and on the poles that
\* spindlePlotWithOriginalCoords returns, for the records with rotAngle = 0.
C15_BackMapInvertsForward ==
    /\ (Len(ret) = 3 /\ ret[3].set /\ ret[3].rotAngle = Zero) =>
          \A s \in ret[1].samples :
              Near(transformCoordinatesBackToOriginal(
                       RotateForward(Point(s[1], s[2]), ret[3]), ret[3]), s)
    /\ (entry = "spindlePlotWithOriginalCoords" /\ Returned /\ outcome.exists
          /\ outcome.left.known) =>
          \E s \in ret[1].samples : Near(outcome.left, s)

Within2(obj, x, y) ==
    \E k \in 1..Len(obj.xCoords) :
        Abs(obj.xCoords[k] - x) <= 2 /\ Abs(obj.yCoords[k] - y) <= 2

\* C18: in the clustering pass each foreground pixel, taken in scan order, is
\* appended to the earliest-created cluster that has a member within 2 rows
\* and 2 columns of it, and to no other; when no cluster has such a member
\* the pixel becomes a new singleton cluster appended after the existing ones.
C18_EarliestNeighbourCluster ==
    [][ (pc = "cluster" /\ i' = i + 1) =>
          LET x == c2[i + 1]
              y == r2[i + 1]
              hits == { o \in 1..Len(tObjects) : Within2(tObjects[o], x, y) }
          IN  IF hits = {}
              THEN tObjects' = Append(tObjects,
                                 [xCoords |-> <<x>>, yCoords |-> <<y>>,
                                  numPoints |-> 1, com |-> NoCom])
              ELSE LET first == CHOOSE o \in hits : \A o3 \in hits : o <= o3
                   IN  /\ Len(tObjects') = Len(tObjects)
                       /\ tObjects'[first].xCoords = Append(tObjects[first].xCoords, x)
                       /\ tObjects'[first].yCoords = Append(tObjects[first].yCoords, y)
                       /\ tObjects'[first].numPoints = tObjects[first].numPoints + 1
                       /\ \A o \in 1..Len(tObjects) : o # first => tObjects'[o] = tObjects[o]
      ]_vars

\* the pixel placed last had members of two clusters within 2 rows and 2
\* columns and was appended to the earlier one only
C18_Witness ==
    /\ pc = "cluster" /\ i >= 2
    /\ \E a \in 1..Len(tObjects) : \E b \in 1..Len(tObjects) :
          /\ a < b
          /\ tObjects[a].xCoords[Len(tObjects[a].xCoords)] = c2[i]
          /\ tObjects[a].yCoords[Len(tObjects[a].yCoords)] = r2[i]
          /\ Within2(tObjects[b], c2[i], r2[i])
          /\ <<r2[i], c2[i]>> \notin Members(tObjects[b])

\* the pairs (o1, o2) of a complete pass over n clusters
AllPairs(n) == { <<a, b>> \in (0..(n - 1)) \X (0..(n - 1)) : a < b }

\* C19: the consolidation loop terminates (once entered it is left, after at
\* most one pass more than there are foreground pixels); it exits only after
\* a complete pass in which every unordered pair of live clusters was
\* compared and no merge happened; a pass in which a merge removed a cluster
\* is always followed by another pass.
C19_ConsolidationExit ==
    /\ (pc = "consolidate") ~> (pc = "centroid")
    /\ [][ /\ passLog.n <= Len(c2) + 1
           /\ (pc = "consolidate" /\ pc' = "centroid") =>
                 /\ passLog.n >= 1
                 /\ ~passLog.merged
                 /\ passLog.compared = AllPairs(Len(tObjects))
           /\ (pc = "consolidate" /\ passLog.merged) =>
                 /\ pc' = "scan"
                 /\ passLog'.n = passLog.n + 1
         ]_vars

\* the loop has ended after a pass with a merge and a further pass that
\* compared several pairs
C19_Witness ==
    /\ pc = "centroid"
    /\ passLog.n >= 2
    /\ Cardinality(passLog.compared) >= 3
    /\ ~passLog.merged

\* clusters a and b have members less than 10 apart in row and in column
Within10(a, b) ==
    \E n \in 1..Len(a.xCoords) : \E k \in 1..Len(b.xCoords) :
        Abs(b.xCoords[k] - a.xCoords[n]) < 10 /\ Abs(b.yCoords[k] - a.yCoords[n]) < 10

\* C20: a merge of the pair (i, j), i < j, appends all members of cluster j
\* to cluster i, makes the point count of i the sum of the two counts,
\* removes j from the live list (the number of live clusters drops by exactly
\* one) and leaves every other cluster unchanged.
C20_MergeEffect ==
    [][ (pc = "scan" /\ o1' = o1 /\ o2' = o2 + 1 /\ o2 < Len(tObjects)
            /\ Within10(tObjects[o1 + 1], tObjects[o2 + 1])) =>
          LET a == o1 + 1
              b == o2 + 1
          IN  /\ Len(tObjects') = Len(tObjects) - 1
              /\ tObjects'[a].xCoords = tObjects[a].xCoords \o tObjects[b].xCoords
              /\ tObjects'[a].yCoords = tObjects[a].yCoords \o tObjects[b].yCoords
              /\ tObjects'[a].numPoints = tObjects[a].numPoints + tObjects[b].numPoints
              /\ \A k \in 1..Len(tObjects') :
                    k # a => tObjects'[k] = IF k < b THEN tObjects[k] ELSE tObjects[k + 1]
      ]_vars

\* a merge has just absorbed a cluster of several points while a cluster
\* behind the absorbed one stays live
C20_Witness ==
    /\ pc = "scan"
    /\ passLog.merged
    /\ o2 >= 2
    /\ o2 <= Len(tObjects)
    /\ tObjects[o1 + 1].numPoints >= 4

\* the frames the loop body of the last Run All Frames started on
Visited == { gui.batch.visited[k] : k \in 1..Len(gui.batch.visited) }

\* C16: in the Run All Frames batch a failure while measuring one frame does
\* not stop the batch: every frame from the current frame to the last frame
\* of the file is processed, the handler runs to its end, and no exception
\* leaves it.
C16_BatchProcessesEveryFrame ==
    gui.batch.started =>
        /\ gui.batch.ended
        /\ gui.raised = ""
        /\ Visited = gui.batch.from..Len(gui.fileName)

\* the intensity-weighted sums of a set of pixels, each pixel counted once:
\* (sum of v * column, sum of v * row, sum of v)
RECURSIVE WeightedSums(_, _)
WeightedSums(img, S) ==
    IF S = {} THEN [xsum |-> 0, ysum |-> 0, mass |-> 0]
    ELSE LET p == CHOOSE p \in S : TRUE
             rest == WeightedSums(img, S \ {p})
             v == Intensity(img, p[1], p[2])
         IN  [xsum |-> rest.xsum + v * p[2], ysum |-> rest.ysum + v * p[1],
              mass |-> rest.mass + v]

\* sum over the pixels of S, weight 1 each, of the product of the offsets from
\* the point (c.xsum / c.mass, c.ysum / c.mass), scaled by c.mass^2
RECURSIVE SecondMoment(_, _, _)
SecondMoment(S, c, kind) ==
    IF S = {} THEN 0
    ELSE LET p == CHOOSE p \in S : TRUE
             dx == p[2] * c.mass - c.xsum
             dy == p[1] * c.mass - c.ysum
         IN  (CASE kind = "xx" -> dx * dx [] kind = "yy" -> dy * dy [] OTHER -> dx * dy)
             + SecondMoment(S \ {p}, c, kind)

\* the detection of this call built its inertia tensor
TensorBuilt == Len(ret) = 3 /\ ret[3].set /\ centerObj \in 1..Len(tObjects)

\* C21: the inertia tensor entries Ixx, Iyy, Ixy are the sums, over the
\* distinct pixels of the selected cluster each with weight 1, of (x-cx)^2,
\* (y-cy)^2 and (x-cx)(y-cy), where (cx, cy) is the intensity-weighted
\* centroid of the selected cluster; pixels of other clusters contribute
\* nothing.
C21_TensorAboutCentroid ==
    TensorBuilt =>
        LET S == Members(tObjects[centerObj])
            c == WeightedSums(imageArr, S)
            t == ret[3].tensor
        IN  /\ c.mass # 0
            /\ t.Ixx * c.mass * c.mass = t.scale * SecondMoment(S, c, "xx")
            /\ t.Iyy * c.mass * c.mass = t.scale * SecondMoment(S, c, "yy")
            /\ t.Ixy * c.mass * c.mass = t.scale * SecondMoment(S, c, "xy")

\* the points the back-mapping is probed with, in rotated space
ProbePoints == { Point(0, 0), Point(3, 7), Point(11, 35),
                 [known |-> TRUE, xnum |-> 7, ynum |-> 5, den |-> 2] }

\* two known rational points are the same point
SamePoint(p, q) ==
    /\ p.known /\ q.known
    /\ p.xnum * q.den = q.xnum * p.den
    /\ p.ynum * q.den = q.ynum * p.den

\* (processed_center_x, processed_center_y) of a transform record
CentrePoint(transformInfo) ==
    [known |-> TRUE, xnum |-> transformInfo.processed_center_x2,
     ynum |-> transformInfo.processed_center_y2, den |-> 2]

\* com of a transform record, as a point
ComPoint(transformInfo) ==
    [known |-> TRUE, xnum |-> transformInfo.com.xsum,
     ynum |-> transformInfo.com.ysum, den |-> transformInfo.com.mass]

\* p + com - centre, computed coordinate by coordinate over the common
\* denominator 2 * p.den * mass
Translated(p, transformInfo) ==
    LET c == CentrePoint(transformInfo)
        k == ComPoint(transformInfo)
    IN  [known |-> TRUE,
         xnum |-> p.xnum * 2 * k.den - c.xnum * p.den * k.den + k.xnum * 2 * p.den,
         ynum |-> p.ynum * 2 * k.den - c.ynum * p.den * k.den + k.ynum * 2 * p.den,
         den |-> 2 * p.den * k.den]

\* C22: transformCoordinatesBackToOriginal maps, for every transform record
\* the detection returns, the point (processed_center_x, processed_center_y)
\* exactly to com; for rotAngle = 0 it is the translation by com minus the
\* centre; when no transform record is given (None) it returns the input
\* point unchanged.
C22_BackMapShape ==
    Len(ret) = 3 =>
        IF ret[3].set
        THEN /\ SamePoint(transformCoordinatesBackToOriginal(CentrePoint(ret[3]), ret[3]),
                          ComPoint(ret[3]))
             /\ ret[3].rotAngle = Zero =>
                   \A p \in ProbePoints :
                       SamePoint(transformCoordinatesBackToOriginal(p, ret[3]),
                                 Translated(p, ret[3]))
             /\ (entry = "spindlePlotWithOriginalCoords" /\ Returned /\ outcome.left.known) =>
                   \E s \in ret[1].samples :
                       /\ s[1] = MinX(ret[1].samples)
                       /\ SamePoint(outcome.left, Translated(Point(s[1], s[2]), ret[3]))
        ELSE \A p \in ProbePoints \cup {NoPoint} :
                 transformCoordinatesBackToOriginal(p, ret[3]) = p

\* the left pole of a structure whose centroid is off the centre of the image
\* was mapped back under a record with rotAngle = 0
C22_Witness ==
    /\ entry = "spindlePlotWithOriginalCoords" /\ Returned
    /\ Len(ret) = 3 /\ ret[3].set /\ ret[3].rotAngle = Zero
    /\ outcome.left.known
    /\ ~SamePoint(ComPoint(ret[3]), CentrePoint(ret[3]))
    /\ ~SamePoint(outcome.left, outcome.right)

\* the manual override is off and holds no pole
OverrideCleared(g) ==
    /\ ~g.manual_override_active
    /\ g.manual_left_pole = PoleNone
    /\ g.manual_right_pole = PoleNone

\* the manual override is on only with both poles set
OverrideComplete(g) ==
    g.manual_override_active =>
        (g.manual_left_pole # PoleNone /\ g.manual_right_pole # PoleNone)

RowWritten(a, b, f) ==
    /\ Len(b) = Len(a)
    /\ f \in 1..Len(b)
    /\ Len(b[f]) = 5
    /\ \A k \in 1..Len(a) : k # f => b[k] = a[k]

\* C24: Add on the current frame f ends in one of two ways: the measurement
\* reported a structure, row f of the data table is overwritten with the five
\* measured values, every other row is unchanged and the frame number becomes
\* min(f+1, total frames); or it reported no structure, or no file is loaded,
\* and the data table and the frame number are unchanged.
C24_AddEffect ==
    [][ gui'.op = "add" =>
          /\ gui'.raised = ""
          /\ \/ /\ gui'.dataTableArray = gui.dataTableArray
                /\ gui'.frameValue = gui.frameValue
             \/ /\ gui.fileName # NoFile
                /\ RowWritten(gui.dataTableArray, gui'.dataTableArray, gui.frameValue)
                /\ gui'.frameValue = Min2(gui.frameValue + 1, Len(gui.fileName))
      ]_vars

\* the frames held by a list of frame numbers
Frames(sq) == { sq[k] : k \in 1..Len(sq) }

\* the set S with the membership of f flipped
Toggled(S, f) == IF f \in S THEN S \ {f} ELSE S \cup {f}

\* C25: Toss on the frame f with a file loaded flips the membership of f in
\* tossedFrames and in the tossed rows of the table model (so tossing the same
\* frame twice restores both), never changes the measurement values of the
\* data table, and leaves the frame number at min(f+1, total frames).
C25_TossToggles ==
    [][ (gui'.op = "toss" /\ gui.fileName # NoFile) =>
          LET f == gui.frameValue
          IN  /\ Frames(gui'.tossedFrames) = Toggled(Frames(gui.tossedFrames), f)
              /\ Len(gui'.tossedFrames) = Cardinality(Frames(gui'.tossedFrames))
              /\ gui'.hasTableModel
              /\ Frames(gui'.tossedRows) = Toggled(Frames(gui.tossedRows), f)
              /\ gui'.dataTableArray = gui.dataTableArray
              /\ gui'.frameValue = Min2(f + 1, Len(gui.fileName))
      ]_vars

\* the sequence a, a+1, ..., b (empty when b < a)
Range(a, b) == [k \in 1..(b - a + 1) |-> a + k - 1]

\* C26: Run All Frames started on frame s with a file loaded visits the
\* frames s, s+1, ..., total (all frames of the file from s on) in
\* increasing order, with the manual override off; every visited frame has
\* its row written or is in tossedFrames afterwards, once; no frame leaves
\* tossedFrames and the rows of the frames before s are unchanged.
C26_RunAllFramesOrder ==
    [][ (gui'.op = "runAll" /\ gui.fileName # NoFile) =>
          LET s == gui.frameValue
              total == Len(gui.fileName)
          IN  /\ gui'.batch.visited = Range(s, total)
              /\ ~gui'.manual_override_active
              /\ \A f \in s..total :
                    \/ f \in Frames(gui'.tossedFrames)
                    \/ /\ f \in 1..Len(gui'.dataTableArray)
                       /\ Len(gui'.dataTableArray[f]) = 5
              /\ Len(gui'.tossedFrames) = Cardinality(Frames(gui'.tossedFrames))
              /\ Frames(gui.tossedFrames) \subseteq Frames(gui'.tossedFrames)
              /\ \A f \in 1..(s - 1) :
                    f \in 1..Len(gui.dataTableArray) =>
                        /\ f \in 1..Len(gui'.dataTableArray)
                        /\ gui'.dataTableArray[f] = gui.dataTableArray[f]
      ]_vars

\* the entry points that call getSpindleImg and unpack two values
PairCallers == { "spindleMeasurements", "spindlePlot", "spindleMeasurementsManual",
                 "spindlePlotManual" }

\* C27: getSpindleImg returns a result of the same shape on every path, the
\* pair (raster, exists), so spindleMeasurements, spindlePlot,
\* spindleMeasurementsManual and spindlePlotManual obtain the raster and the
\* flag without an unpacking error on an empty and on a non-empty mask.
C27_ReturnIsPair ==
    (entry \in PairCallers) =>
        /\ (pc = "returned") => (Len(ret) = 2 /\ ret[2] \in BOOLEAN)
        /\ Done => ~(outcome.kind = "raise" /\ outcome.exc = "ValueError")

\* the clustering pass of this call is over
Clustered_Done == pc \in {"consolidate", "scan", "centroid", "select", "align"}

\* C28: after the clustering pass, and after every consolidation merge, each
\* cluster's running point count equals the length of its member sequence, no
\* member sequence contains the same pixel twice, and the point counts of all
\* live clusters sum to the number of foreground pixels of the mask.
C28_CountsMatchMembers ==
    Clustered_Done =>
        /\ \A o \in 1..Len(tObjects) :
              /\ tObjects[o].numPoints = Len(tObjects[o].xCoords)
              /\ tObjects[o].numPoints = Len(tObjects[o].yCoords)
              /\ Cardinality(Members(tObjects[o])) = Len(tObjects[o].xCoords)
        /\ SumPoints(tObjects, Len(tObjects)) = Cardinality(arr)

\* a list of frame numbers is sorted and holds no frame twice
StrictlyIncreasing(sq) == \A k \in 1..(Len(sq) - 1) : sq[k] < sq[k + 1]

\* C29: after any sequence of Load file, Toss and Run All Frames operations
\* tossedFrames is strictly increasing, holds only frame numbers between 1
\* and the number of frames of the file, and holds exactly the frames of the
\* table model's tossed-row list; loading a new file empties both.
C29_TossedFramesInvariant ==
    [][ /\ StrictlyIncreasing(gui'.tossedFrames)
        /\ Frames(gui'.tossedFrames) \subseteq 1..Len(gui'.fileName)
        /\ Frames(gui'.tossedFrames) = Frames(gui'.tossedRows)
        /\ (gui'.op = "load" /\ gui'.fileName # gui.fileName) =>
              (gui'.tossedFrames = << >> /\ gui'.tossedRows = << >>)
      ]_vars

\* the two detection functions run side by side on the inputs of this call:
\* getSpindleImgWithTransform is the detection as spindlePlotWithOriginalCoords
\* calls it, getSpindleImg the detection as spindleMeasurements calls it
WithTransformRun == getSpindleImg("spindlePlotWithOriginalCoords", imageArr, arr, Width, Height)
PlainRun == getSpindleImg("spindleMeasurements", imageArr, arr, Width, Height)

\* C30: getSpindleImgWithTransform and getSpindleImg are equivalent: on the
\* same image and mask they end the same way and return the same raster and
\* the same exists flag, on the empty-mask path as well as on the detected
\* path, and differ only in that the former returns the transform record as
\* a third value where the latter returns the pair.
C30_DetectionsEquivalent ==
    /\ WithTransformRun.exc = PlainRun.exc
    /\ (WithTransformRun.exc = "") =>
          /\ Len(WithTransformRun.ret) = 3
          /\ Len(PlainRun.ret) = 2
          /\ PlainRun.ret[1] = WithTransformRun.ret[1]
          /\ PlainRun.ret[2] = WithTransformRun.ret[2]

====
